---- MODULE Spec2Model ----
(***************************************************************************)
(* Streaming time-weighted spread aggregator                               *)
(* (src/exercises/streaming_spread/time_weight.py): QuotePair, TimeCache   *)
(* and the driver compute_twa.                                             *)
(*                                                                         *)
(* Numbers are fixed-point.  A time is a whole number of ticks, with       *)
(* TicksPerSec ticks to the second.  A price or a spread is a whole number *)
(* of 10^-PriceDigits units, finer than the 10^-FLOAT_DIGITS units of a    *)
(* weighted average, which is the precision round(.., 8) keeps.  Python's  *)
(* None is the empty tuple and a float x is held as <<x>>.                 *)
(*                                                                         *)
(* Then the toy modules: CountCache (src/toy_modules/count_cache.py) under *)
(* threads, and the write master (src/toy_modules/mp_writemaster.py) with  *)
(* its worker processes.                                                   *)
(***************************************************************************)
EXTENDS Integers, Sequences, FiniteSets, TLC

VARIABLES
    current_ts, ask, bid,               \* QuotePair
    ask_ts, bid_ts,                     \* timestamp of the add call that supplied ask, bid
    archive, last_spread, tmp_cache,    \* TimeCache
    stdout,                             \* every line written to sys.stdout
    pc,                                 \* compute_twa: "reading", "aborted", "done"
    clock,                              \* timestamp of the latest input (inputs never go back)
    fed,                                \* the observations TimeCache.add has accepted
    orphan,                             \* timestamp of the first record compute_twa dropped
                                        \* because the instant before it was left unpaired
    last,                               \* the latest call: arguments, outcome, state before it
    cc_dict, cc_lock,                   \* CountCache: the dict's items, who holds _lock
    cc_pc, cc_key, cc_ret,              \* each thread: where it is, its key, its value
    cc_calls,                           \* each thread: the calls it has made
    cc_returned,                        \* each key: what __getitem__ returned since the last clear
    wm_master,                          \* mp_writemaster: "unloaded" or the error of loading it
    wm_q_in, wm_q_dict,                 \* the queue to the master, each worker's own queue
    wm_want,                            \* each worker: the file id it asked for
    st_read,                            \* stream: the characters f.read(1) has returned
    st_chunk, st_yielded,               \* stream: chunk, the items yielded so far
    st_pc                               \* stream: "running" or "done"

twvars == <<current_ts, ask, bid, ask_ts, bid_ts, archive, last_spread, tmp_cache,
            stdout, pc, clock, fed, orphan, last>>
ccvars == <<cc_dict, cc_lock, cc_pc, cc_key, cc_ret, cc_calls, cc_returned>>
wmvars == <<wm_master, wm_q_in, wm_q_dict, wm_want>>

stvars == <<st_read, st_chunk, st_yielded, st_pc>>

vars == <<twvars, ccvars, wmvars, stvars>>

-----------------------------------------------------------------------------
(* Bounds of the model *)

TicksPerSec == 2        \* resolution of a timestamp
MaxTs == 6              \* latest input timestamp, in ticks
MaxCacheTs == 7         \* latest timestamp of a TimeCache call made on its own, in ticks
MaxGap == 3             \* largest step between two input timestamps, in ticks
MaxAdds == 4            \* observations TimeCache accepts in one run
PriceDigits == 9        \* decimal digits of the price unit
MaxThreads == 2         \* threads that share one CountCache
MaxCalls == 2           \* calls each thread makes
MaxWorkers == 3         \* worker processes of the write master
MaxIds == 2             \* file ids the workers ask for
MaxLen == 4             \* characters of the input of stream

(* Program constants *)

FLOAT_DIGITS == 8
float_multiplier == 1
MicrosPerSec == 1000000

-----------------------------------------------------------------------------
(* Python values *)

None == <<>>
Some(x) == <<x>>
Val(v) == v[1]

\* bool(v) of a float or None
Truthy(v) == v # None /\ Val(v) # 0

PyFloat(x) == [type |-> "float", val |-> x]
PyInt(x) == [type |-> "int", val |-> x]
PyStr(x) == [type |-> "str", val |-> x]

\* a variant that takes any number for a float
isinstance_number(v) == v.type \in {"float", "int"}

isinstance_float(v) == v.type = "float"

RECURSIVE Pow10(_)
Pow10(n) == IF n = 0 THEN 1 ELSE 10 * Pow10(n - 1)

Abs(x) == IF x < 0 THEN -x ELSE x

\* round(n / d, FLOAT_DIGITS) of two fixed-point numbers whose quotient is in
\* price units: the nearest multiple of 10^-FLOAT_DIGITS, halves away from zero
round(n, d) ==
    LET num == IF PriceDigits <= FLOAT_DIGITS
               THEN n * Pow10(FLOAT_DIGITS - PriceDigits) ELSE n
        den == IF PriceDigits <= FLOAT_DIGITS
               THEN d ELSE d * Pow10(PriceDigits - FLOAT_DIGITS)
        sign == IF (num < 0) # (den < 0) THEN -1 ELSE 1
    IN  sign * ((2 * Abs(num) + Abs(den)) \div (2 * Abs(den)))

floor(ts) == (ts \div TicksPerSec) * TicksPerSec

\* x / 1000000.0 of a microsecond count, as ticks
microsec_to_sec(x) == (x * TicksPerSec) \div MicrosPerSec

\* x * 1000000.0 of a time in ticks
sec_to_microsec(x) == (x * MicrosPerSec) \div TicksPerSec

-----------------------------------------------------------------------------
(* QuotePair *)

QP == [current_ts |-> current_ts, ask |-> ask, bid |-> bid]

QuotePair_init == [current_ts |-> None, ask |-> None, bid |-> None]

Raise(e, q) == [exc |-> e, value |-> None, q |-> q]
Return(v, q) == [exc |-> "none", value |-> v, q |-> q]

\* a variant that takes a stored 0.0 for an unset side
update_quote_falsy(q, side, price) ==
    LET a == IF side = ":a"
             THEN IF Truthy(q.ask) THEN Raise("QuoteError", q)
                  ELSE Return(None, [q EXCEPT !.ask = Some(price)])
             ELSE Return(None, q)
    IN  IF a.exc # "none" THEN a
        ELSE IF side = ":b"
             THEN IF Truthy(a.q.bid) THEN Raise("QuoteError", a.q)
                  ELSE Return(None, [a.q EXCEPT !.bid = Some(price)])
             ELSE a

update_quote(q, side, price) ==
    LET a == IF side = ":a"
             THEN IF q.ask # None THEN Raise("QuoteError", q)
                  ELSE Return(None, [q EXCEPT !.ask = Some(price)])
             ELSE Return(None, q)
    IN  IF a.exc # "none" THEN a
        ELSE IF side = ":b"
             THEN IF a.q.bid # None THEN Raise("QuoteError", a.q)
                  ELSE Return(None, [a.q EXCEPT !.bid = Some(price)])
             ELSE a

\* a variant that forgets the bid only
clear_prices_bid_only(q) == [q EXCEPT !.bid = None]

\* lines 119-121
clear_prices(q) == [q EXCEPT !.ask = None, !.bid = None]

\* a variant that leaves current_ts as it was
QuotePair_add_tail_stale(q, ts, side, price) ==
    LET u == update_quote(q, side, price)
    IN  IF u.exc # "none" THEN u
        ELSE IF Truthy(u.q.ask) /\ Truthy(u.q.bid)
             THEN Return(Some(Val(u.q.ask) - Val(u.q.bid)), u.q)
             ELSE Return(None, u.q)

\* lines 159-169 of add: set the side, track the timestamp, return the spread
QuotePair_add_tail(q, ts, side, price) ==
    LET u == update_quote(q, side, price)
    IN  IF u.exc # "none" THEN u
        ELSE LET q3 == [u.q EXCEPT !.current_ts = Some(ts)]
             IN  IF Truthy(q3.ask) /\ Truthy(q3.bid)
                 THEN Return(Some(Val(q3.ask) - Val(q3.bid)), q3)
                 ELSE Return(None, q3)

\* a variant that takes a stored 0.0 for an unset side
previous_unpaired_falsy(q) == ~Truthy(q.ask) \/ ~Truthy(q.bid)

\* line 147: the instant before was left with a side unset
previous_unpaired(q) == q.ask = None \/ q.bid = None

\* a variant that leaves the side unchecked
valid_input_any_side(ts, side, price) ==
    /\ isinstance_float(ts)
    /\ isinstance_float(price)

\* lines 126-136: the arguments add accepts
valid_input(ts, side, price) ==
    /\ isinstance_float(ts)
    /\ ~(side # ":a" /\ side # ":b")
    /\ isinstance_float(price)

\* lines 138-169 of add, the arguments being valid
QuotePair_add_body(q, ts, side, price) ==
    LET q1 == IF q.current_ts = None
              THEN [q EXCEPT !.current_ts = Some(ts)]
              ELSE q
        new_time == IF q.current_ts = None
                    THEN 0
                    ELSE ts - Val(q.current_ts)
    IN  IF new_time # 0
        THEN IF previous_unpaired(q1)
             THEN Raise("QuoteError", q1)
             ELSE QuotePair_add_tail(clear_prices(q1), ts, side, price)
        ELSE IF Truthy(q1.ask) /\ Truthy(q1.bid)
             THEN Raise("QuoteError", q1)
             ELSE QuotePair_add_tail(q1, ts, side, price)

QuotePair_add(q, ts, side, price) ==
    IF ~valid_input(ts, side, price) THEN Raise("InputError", q)
    ELSE QuotePair_add_body(q, ts.val, side, price.val)

-----------------------------------------------------------------------------
(* TimeCache *)

TC == [archive |-> archive, last_spread |-> last_spread, tmp_cache |-> tmp_cache]

TimeCache_init == [archive |-> <<>>, last_spread |-> None, tmp_cache |-> <<>>]

Entry(ts, avg) == [ts |-> ts, avg |-> avg]          \* an archive tuple
Obs(ts, spread) == [ts |-> ts, spread |-> spread]   \* a tmp_cache tuple

Last(s) == s[Len(s)]

\* a variant that weights the time before the first observation of a cold window
\* by that observation's spread
get_spreads_and_time_weights_lead(c) ==
    LET n == Len(c.tmp_cache)
        lead == << [spread |-> IF c.last_spread # None
                               THEN Val(c.last_spread)
                               ELSE c.tmp_cache[1].spread,
                    weight |-> c.tmp_cache[1].ts - Last(c.archive).ts] >>
        main == [i \in 1..(n - 1) |->
                    [spread |-> c.tmp_cache[i].spread,
                     weight |-> c.tmp_cache[i + 1].ts - c.tmp_cache[i].ts]]
        trail == << [spread |-> c.tmp_cache[n].spread,
                     weight |-> Last(c.archive).ts
                                + float_multiplier * TicksPerSec
                                - c.tmp_cache[n].ts] >>
    IN  lead \o main \o trail

\* a variant that leaves the time before the first observation out of every window
get_spreads_and_time_weights_nolead(c) ==
    LET n == Len(c.tmp_cache)
        main == [i \in 1..(n - 1) |->
                    [spread |-> c.tmp_cache[i].spread,
                     weight |-> c.tmp_cache[i + 1].ts - c.tmp_cache[i].ts]]
        trail == << [spread |-> c.tmp_cache[n].spread,
                     weight |-> Last(c.archive).ts
                                + float_multiplier * TicksPerSec
                                - c.tmp_cache[n].ts] >>
    IN  main \o trail

\* the spreads and their time weights, as one sequence of (spread, weight)
get_spreads_and_time_weights(c) ==
    LET n == Len(c.tmp_cache)
        lead == IF c.last_spread # None
                THEN << [spread |-> Val(c.last_spread),
                         weight |-> c.tmp_cache[1].ts - Last(c.archive).ts] >>
                ELSE << >>
        main == [i \in 1..(n - 1) |->
                    [spread |-> c.tmp_cache[i].spread,
                     weight |-> c.tmp_cache[i + 1].ts - c.tmp_cache[i].ts]]
        trail == << [spread |-> c.tmp_cache[n].spread,
                     weight |-> Last(c.archive).ts
                                + float_multiplier * TicksPerSec
                                - c.tmp_cache[n].ts] >>
    IN  lead \o main \o trail

RECURSIVE SumProducts(_)
SumProducts(sw) ==
    IF sw = << >> THEN 0
    ELSE sw[1].spread * sw[1].weight + SumProducts(Tail(sw))

RECURSIVE SumWeights(_)
SumWeights(sw) ==
    IF sw = << >> THEN 0 ELSE sw[1].weight + SumWeights(Tail(sw))

\* [exc, value]: the rounded average, or the division by zero
weight_time(sw) ==
    LET twa == SumProducts(sw)
        time_sum == SumWeights(sw)
    IN  IF time_sum = 0
        THEN [exc |-> "ZeroDivisionError", value |-> None]
        ELSE [exc |-> "none", value |-> Some(round(twa, time_sum))]

get_last_archive_ts(c) == Last(c.archive).ts

\* a variant that seeds the archive with the timestamp itself
cold_cache_unfloored(c, ts, spread) ==
    IF Len(c.tmp_cache) = 0
    THEN LET c1 == [c EXCEPT !.tmp_cache = Append(@, Obs(ts, spread))]
         IN  IF Len(c1.archive) = 0
             THEN [ret |-> Some(1),
                   c |-> [c1 EXCEPT !.archive = << Entry(ts, None) >>]]
             ELSE [ret |-> None, c |-> c1]
    ELSE [ret |-> Some(0), c |-> c]

\* [ret, c]: ret is 1, 0 or None (the fall-through when only tmp_cache was empty)
cold_cache(c, ts, spread) ==
    IF Len(c.tmp_cache) = 0
    THEN LET c1 == [c EXCEPT !.tmp_cache = Append(@, Obs(ts, spread))]
         IN  IF Len(c1.archive) = 0
             THEN [ret |-> Some(1),
                   c |-> [c1 EXCEPT !.archive = << Entry(floor(ts), None) >>]]
             ELSE [ret |-> None, c |-> c1]
    ELSE [ret |-> Some(0), c |-> c]

\* [exc, c]
update_archive(c, ts, spread) ==
    LET w == weight_time(get_spreads_and_time_weights(c))
    IN  IF w.exc # "none" THEN [exc |-> w.exc, c |-> c]
        ELSE [exc |-> "none",
              c |-> [archive |-> Append(c.archive, Entry(floor(ts), w.value)),
                     last_spread |-> Some(Last(c.tmp_cache).spread),
                     tmp_cache |-> << Obs(ts, spread) >>]]

\* a variant that closes the second at any later timestamp
second_elapsed_any(duration) == duration > 0

\* a variant that closes the second only after two seconds
second_elapsed_late(duration) == duration > 2 * TicksPerSec

\* a variant that closes the second at exactly 1.0
second_elapsed_at_one(duration) == duration >= TicksPerSec

\* line 338: duration > 1.0
second_elapsed(duration) == duration > TicksPerSec

\* [exc, value, c]: value is None (cold start), Some(1) (ready) or Some(0)
TimeCache_add(c, ts, spread) ==
    IF ~isinstance_float(ts) THEN [exc |-> "InputError", value |-> None, c |-> c]
    ELSE IF ~isinstance_float(spread) THEN [exc |-> "InputError", value |-> None, c |-> c]
    ELSE LET cold == cold_cache(c, ts.val, spread.val)
         IN  IF cold.ret = Some(1)
             THEN [exc |-> "none", value |-> None, c |-> cold.c]
             ELSE LET duration == ts.val - get_last_archive_ts(cold.c)
                  IN  IF second_elapsed(duration)
                      THEN LET u == update_archive(cold.c, ts.val, spread.val)
                           IN  IF u.exc # "none"
                               THEN [exc |-> u.exc, value |-> None, c |-> u.c]
                               ELSE [exc |-> "none", value |-> Some(1), c |-> u.c]
                      ELSE [exc |-> "none", value |-> Some(0),
                            c |-> [cold.c EXCEPT !.tmp_cache =
                                       Append(@, Obs(ts.val, spread.val))]]

Line(ts, price) == [ts |-> sec_to_microsec(ts), value |-> price]

\* the while loop of log for one archive entry: [lines, last_logged_ts]
RECURSIVE log_fill(_, _, _)
log_fill(last_logged_ts, this_ts, price) ==
    IF last_logged_ts < this_ts /\ price # None
    THEN LET rest == log_fill(last_logged_ts + TicksPerSec, this_ts, price)
         IN  [lines |-> << Line(last_logged_ts, Val(price)) >> \o rest.lines,
              last_logged_ts |-> rest.last_logged_ts]
    ELSE [lines |-> << >>, last_logged_ts |-> last_logged_ts]

\* the for loop of log from entry i on (i counts from 1; the first entry is skipped)
RECURSIVE log_loop(_, _, _)
log_loop(arch, i, last_logged_ts) ==
    IF i > Len(arch) THEN << >>
    ELSE LET f == log_fill(last_logged_ts, arch[i].ts, arch[i - 1].avg)
         IN  f.lines \o log_loop(arch, i + 1, f.last_logged_ts)

\* a variant that retains nothing
log_retained_none(arch) == << >>

\* a variant that retains the first second
log_retained_first(arch) == << arch[1] >>

\* a variant that retains every second
log_retained_all(arch) == arch

\* a variant that retains the last second without its average
log_retained_blank(arch) == << Entry(Last(arch).ts, None) >>

\* line 369: what log leaves in the archive
log_retained(arch) == << Last(arch) >>

\* a variant that starts at the anchor's own second
TimeCache_log_from_anchor(c) ==
    IF Len(c.archive) = 0
    THEN [exc |-> "IndexError", lines |-> << >>, c |-> c]
    ELSE LET filled == log_loop(c.archive, 2, c.archive[1].ts)
         IN  IF Len(c.archive) = 1
             THEN [exc |-> "UnboundLocalError", lines |-> filled, c |-> c]
             ELSE [exc |-> "none",
                   lines |-> Append(filled, Line(Last(c.archive).ts,
                                                 Val(Last(c.archive).avg))),
                   c |-> [c EXCEPT !.archive = log_retained(c.archive)]]

\* [exc, lines, c]
TimeCache_log(c) ==
    IF Len(c.archive) = 0
    THEN [exc |-> "IndexError", lines |-> << >>, c |-> c]
    ELSE LET filled == log_loop(c.archive, 2, c.archive[1].ts + TicksPerSec)
         IN  IF Len(c.archive) = 1
             THEN \* this_ts was never bound: the write after the loop fails
                  [exc |-> "UnboundLocalError", lines |-> filled, c |-> c]
             ELSE [exc |-> "none",
                   lines |-> Append(filled, Line(Last(c.archive).ts,
                                                 Val(Last(c.archive).avg))),
                   c |-> [c EXCEPT !.archive = log_retained(c.archive)]]

\* the lines written while the observations obs[i..] are added to c: with
\* incremental set, log() follows every add that reported ready (lines 404-407
\* of compute_twa); without it, log() is called once after the last add (lines
\* 164-182 of test_add_and_log)
RECURSIVE add_and_log(_, _, _, _)
add_and_log(c, obs, i, incremental) ==
    IF i > Len(obs)
    THEN IF incremental THEN << >> ELSE TimeCache_log(c).lines
    ELSE IF incremental /\ TimeCache_add(c, PyFloat(obs[i].ts), PyFloat(obs[i].spread)).value = Some(1)
    THEN TimeCache_log(TimeCache_add(c, PyFloat(obs[i].ts), PyFloat(obs[i].spread)).c).lines
         \o add_and_log(TimeCache_log(TimeCache_add(c, PyFloat(obs[i].ts),
                                                    PyFloat(obs[i].spread)).c).c,
                        obs, i + 1, incremental)
    ELSE add_and_log(TimeCache_add(c, PyFloat(obs[i].ts), PyFloat(obs[i].spread)).c,
                     obs, i + 1, incremental)

\* log() called once after all the adds
log_once_after_adds(obs) == add_and_log(TimeCache_init, obs, 1, FALSE)

\* log() called after every add that reported ready
log_when_ready(obs) == add_and_log(TimeCache_init, obs, 1, TRUE)


-----------------------------------------------------------------------------
(* compute_twa: what reading one record does *)

\* the microsecond count the stream holds for a time of k ticks
MicrosOf(k) == -(((-k) * MicrosPerSec) \div TicksPerSec)

Warning == [level |-> "warning"]
Dropped(c) == [level |-> "info", n |-> Len(c.tmp_cache),
               first |-> c.tmp_cache[1].ts, last |-> Last(c.tmp_cache).ts]

\* what one pass of the for loop hands back
Pass(pcv, q, c, exc, spread, added, ready, lines, logging) ==
    [pc |-> pcv, q |-> q, c |-> c, exc |-> exc, spread |-> spread,
     added |-> added, ready |-> ready, lines |-> lines, logging |-> logging]

\* lines 406-407: l is what time_cache.log() did
compute_twa_logged(r, a, l) ==
    Pass(IF l.exc # "none" THEN "aborted" ELSE "reading",
         r.q, l.c, l.exc, r.value, TRUE, TRUE, l.lines, << >>)

\* lines 405-407: a is what time_cache.add(ts, spread) did
compute_twa_added(r, a) ==
    IF a.exc # "none"
    THEN Pass("aborted", r.q, a.c, a.exc, r.value, FALSE, FALSE, << >>, << >>)
    ELSE IF ~Truthy(a.value)
    THEN Pass("reading", r.q, a.c, a.exc, r.value, TRUE, FALSE, << >>, << >>)
    ELSE compute_twa_logged(r, a, TimeCache_log(a.c))

\* a variant without the except clause
compute_twa_paired_uncaught(c, ts, r) ==
    IF r.exc # "none"
    THEN Pass("aborted", r.q, c, r.exc, r.value, FALSE, FALSE, << >>, << >>)
    ELSE IF r.value = None
    THEN Pass("reading", r.q, c, r.exc, r.value, FALSE, FALSE, << >>, << >>)
    ELSE compute_twa_added(r, TimeCache_add(c, PyFloat(ts), PyFloat(Val(r.value))))

\* a variant whose except clause catches every error of pair_cache.add
compute_twa_paired_catch_all(c, ts, r) ==
    IF r.exc # "none"
    THEN Pass("reading", r.q, c, r.exc, r.value, FALSE, FALSE, << >>, << Warning >>)
    ELSE IF r.value = None
    THEN Pass("reading", r.q, c, r.exc, r.value, FALSE, FALSE, << >>, << >>)
    ELSE compute_twa_added(r, TimeCache_add(c, PyFloat(ts), PyFloat(Val(r.value))))

\* a variant that feeds the spread only when it is truthy
compute_twa_paired_truthy(c, ts, r) ==
    IF r.exc = "QuoteError"
    THEN Pass("reading", r.q, c, r.exc, r.value, FALSE, FALSE, << >>, << Warning >>)
    ELSE IF r.exc # "none"
    THEN Pass("aborted", r.q, c, r.exc, r.value, FALSE, FALSE, << >>, << >>)
    ELSE IF ~Truthy(r.value)
    THEN Pass("reading", r.q, c, r.exc, r.value, FALSE, FALSE, << >>, << >>)
    ELSE compute_twa_added(r, TimeCache_add(c, PyFloat(ts), PyFloat(Val(r.value))))

\* lines 397-407: r is what pair_cache.add(ts, side, price) did
compute_twa_paired(c, ts, r) ==
    IF r.exc = "QuoteError"
    THEN Pass("reading", r.q, c, r.exc, r.value, FALSE, FALSE, << >>, << Warning >>)
    ELSE IF r.exc # "none"
    THEN Pass("aborted", r.q, c, r.exc, r.value, FALSE, FALSE, << >>, << >>)
    ELSE IF r.value = None
    THEN Pass("reading", r.q, c, r.exc, r.value, FALSE, FALSE, << >>, << >>)
    ELSE compute_twa_added(r, TimeCache_add(c, PyFloat(ts), PyFloat(Val(r.value))))

\* one pass of the for loop over the record (us, side, price)
compute_twa_record(q, c, us, side, price) ==
    compute_twa_paired(c, microsec_to_sec(us) * float_multiplier,
        QuotePair_add(q, PyFloat(microsec_to_sec(us) * float_multiplier), side,
                      PyFloat(price * float_multiplier)))

\* a variant that reports only when several observations are left
compute_twa_end_several(c) ==
    IF Len(c.tmp_cache) > 1 THEN << Dropped(c) >> ELSE << >>

\* after the loop: the report of what tmp_cache still holds
compute_twa_end(c) ==
    IF Len(c.tmp_cache) # 0 THEN << Dropped(c) >> ELSE << >>

-----------------------------------------------------------------------------
(* CountCache: a dict that counts, shared by threads *)

Threads == 1..MaxThreads
Keys == {"a", "b"}

\* the dict's items: the count of a key, None for a key it does not hold
CountCache_init == [dict |-> [k \in Keys |-> None], lock |-> None]

has_key(d, key) == d[key] # None
dict_getitem(d, key) == d[key]
dict_setitem(d, key, v) == [d EXCEPT ![key] = Some(v)]
dict_clear(d) == [k \in Keys |-> None]

\* lookup: dict.get(key), which takes no lock and counts nothing
CountCache_lookup(d, key) == d[key]

\* a variant that does not wait for the lock
lock_acquirable_always(l) == TRUE

\* threading.Lock: entering the with block waits until no thread holds the lock
lock_acquirable(l) == l = None

CCStep(t, to) == cc_pc' = [cc_pc EXCEPT ![t] = to]
CCKey(t) == Val(cc_key[t])

\* a thread calls cache[key]
CCGetItem(t, key) ==
    /\ cc_pc[t] = "idle" /\ cc_calls[t] < MaxCalls
    /\ CCStep(t, "acquire")
    /\ cc_key' = [cc_key EXCEPT ![t] = Some(key)]
    /\ cc_calls' = [cc_calls EXCEPT ![t] = @ + 1]
    /\ UNCHANGED <<cc_dict, cc_lock, cc_ret, cc_returned, twvars, wmvars, stvars>>

\* a thread calls cache.clear()
CCClear(t) ==
    /\ cc_pc[t] = "idle" /\ cc_calls[t] < MaxCalls
    /\ CCStep(t, "acquire")
    /\ cc_key' = [cc_key EXCEPT ![t] = None]
    /\ cc_calls' = [cc_calls EXCEPT ![t] = @ + 1]
    /\ UNCHANGED <<cc_dict, cc_lock, cc_ret, cc_returned, twvars, wmvars, stvars>>

\* with self._lock: enter
CCAcquire(t) ==
    /\ cc_pc[t] = "acquire"
    /\ lock_acquirable(cc_lock)
    /\ cc_lock' = Some(t)
    /\ CCStep(t, IF cc_key[t] = None THEN "clear" ELSE "has_key")
    /\ UNCHANGED <<cc_dict, cc_key, cc_ret, cc_calls, cc_returned, twvars, wmvars, stvars>>

\* line 18: if self.has_key(key)
CCHasKey(t) ==
    /\ cc_pc[t] = "has_key"
    /\ CCStep(t, IF has_key(cc_dict, CCKey(t)) THEN "read" ELSE "set_one")
    /\ UNCHANGED <<cc_dict, cc_lock, cc_key, cc_ret, cc_calls, cc_returned, twvars, wmvars, stvars>>

\* line 21: super().__getitem__(key) + 1; a key that is gone raises KeyError
CCRead(t) ==
    /\ cc_pc[t] = "read"
    /\ IF has_key(cc_dict, CCKey(t))
       THEN /\ cc_ret' = [cc_ret EXCEPT ![t] = Some(Val(dict_getitem(cc_dict, CCKey(t))) + 1)]
            /\ CCStep(t, "set")
       ELSE /\ cc_ret' = [cc_ret EXCEPT ![t] = None]
            /\ CCStep(t, "release")
    /\ UNCHANGED <<cc_dict, cc_lock, cc_key, cc_calls, cc_returned, twvars, wmvars, stvars>>

\* lines 19-21: self.__setitem__(key, ...)
CCSet(t) ==
    /\ cc_pc[t] = "set"
    /\ cc_dict' = dict_setitem(cc_dict, CCKey(t), Val(cc_ret[t]))
    /\ CCStep(t, "reread")
    /\ UNCHANGED <<cc_lock, cc_key, cc_ret, cc_calls, cc_returned, twvars, wmvars, stvars>>

\* line 22: return super().__getitem__(key)
CCReread(t) ==
    /\ cc_pc[t] = "reread"
    /\ cc_ret' = [cc_ret EXCEPT ![t] = dict_getitem(cc_dict, CCKey(t))]
    /\ CCStep(t, "release")
    /\ UNCHANGED <<cc_dict, cc_lock, cc_key, cc_calls, cc_returned, twvars, wmvars, stvars>>

\* lines 24-25: self.__setitem__(key, 1); return 1
CCSetOne(t) ==
    /\ cc_pc[t] = "set_one"
    /\ cc_dict' = dict_setitem(cc_dict, CCKey(t), 1)
    /\ cc_ret' = [cc_ret EXCEPT ![t] = Some(1)]
    /\ CCStep(t, "release")
    /\ UNCHANGED <<cc_lock, cc_key, cc_calls, cc_returned, twvars, wmvars, stvars>>

\* line 30: super().clear()
CCClearDo(t) ==
    /\ cc_pc[t] = "clear"
    /\ cc_dict' = dict_clear(cc_dict)
    /\ cc_ret' = [cc_ret EXCEPT ![t] = None]
    /\ cc_returned' = [k \in Keys |-> << >>]
    /\ CCStep(t, "release")
    /\ UNCHANGED <<cc_lock, cc_key, cc_calls, twvars, wmvars, stvars>>

\* with self._lock: leave; the call hands its value back
CCRelease(t) ==
    /\ cc_pc[t] = "release"
    /\ cc_lock' = None
    /\ cc_returned' = IF cc_key[t] # None /\ cc_ret[t] # None
                      THEN [cc_returned EXCEPT ![CCKey(t)] = Append(@, Val(cc_ret[t]))]
                      ELSE cc_returned
    /\ CCStep(t, "idle")
    /\ UNCHANGED <<cc_dict, cc_key, cc_ret, cc_calls, twvars, wmvars, stvars>>

NextCountCache ==
    \E t \in Threads :
        \/ \E key \in Keys : CCGetItem(t, key)
        \/ CCClear(t)
        \/ CCAcquire(t)
        \/ CCHasKey(t)
        \/ CCRead(t)
        \/ CCSet(t)
        \/ CCReread(t)
        \/ CCSetOne(t)
        \/ CCClearDo(t)
        \/ CCRelease(t)

-----------------------------------------------------------------------------
(* mp_writemaster: the master that grants workers the right to write a file *)

Workers == 1..MaxWorkers
Ids == 1..MaxIds

Request(id, pid) == [id |-> id, pid |-> pid, request |-> 1]

\* what loading the module does: the if of line 49 has no indented block (line 60
\* stands at its own level), so the module does not compile and master is never
\* defined
master_load == "IndentationError"

\* the interpreter loads the module
WMLoad ==
    /\ wm_master = "unloaded"
    /\ wm_master' = master_load
    /\ UNCHANGED <<wm_q_in, wm_q_dict, wm_want, twvars, ccvars, stvars>>

\* a worker puts its request for a file id on the input queue and blocks on its
\* own queue until the master puts the permission signal there
WorkerRequest(p, id) ==
    /\ wm_want[p] = None
    /\ wm_want' = [wm_want EXCEPT ![p] = Some(id)]
    /\ wm_q_in' = Append(wm_q_in, Request(id, p))
    /\ UNCHANGED <<wm_master, wm_q_dict, twvars, ccvars, stvars>>

NextWriteMaster ==
    \/ WMLoad
    \/ \E p \in Workers, id \in Ids : WorkerRequest(p, id)

-----------------------------------------------------------------------------
(* stream_data.stream: the generator that cuts a byte stream into lines *)

\* the characters f.read(1) returns; EOF is the empty string it returns at the
\* end of the input
Chars == {"a", "b", "\n"}
EOF == ""

\* a string is the sequence of its characters
Stream == [chunk |-> st_chunk, yielded |-> st_yielded, pc |-> st_pc]

\* line 16
stream_init == [chunk |-> << >>, yielded |-> << >>, pc |-> "running"]

\* a variant that yields the last chunk even when it is empty
stream_eof_always(s) ==
    [s EXCEPT !.yielded = Append(@, s.chunk), !.pc = "done"]

\* lines 23-26: at EOF the chunk is yielded if it is not empty, and the generator
\* ends
stream_eof(s) ==
    IF Len(s.chunk) # 0
    THEN [s EXCEPT !.yielded = Append(@, s.chunk), !.pc = "done"]
    ELSE [s EXCEPT !.pc = "done"]

\* lines 18-27: one pass of the while loop, c being what f.read(1) returned
stream_loop(s, c) ==
    IF c = "\n"
    THEN [s EXCEPT !.yielded = Append(@, s.chunk), !.chunk = << >>]
    ELSE IF c = EOF
    THEN stream_eof(s)
    ELSE [s EXCEPT !.chunk = Append(@, c)]

\* the generator runs one pass of its loop; the input has at most MaxLen
\* characters
StreamRead(c) ==
    /\ st_pc = "running"
    /\ c # EOF => Len(st_read) < MaxLen
    /\ st_read' = IF c = EOF THEN st_read ELSE Append(st_read, c)
    /\ st_chunk' = stream_loop(Stream, c).chunk
    /\ st_yielded' = stream_loop(Stream, c).yielded
    /\ st_pc' = stream_loop(Stream, c).pc
    /\ UNCHANGED <<twvars, ccvars, wmvars>>

NextStream == \E c \in Chars \cup {EOF} : StreamRead(c)

-----------------------------------------------------------------------------
(* State machine *)

NoArg == PyStr(0)

\* the record of a call; fresh: it read the first record of a new timestamp
Call(op, ts, side, x, exc, value, lines, logging, fresh) ==
    [op |-> op, ts |-> ts, side |-> side, x |-> x, exc |-> exc, value |-> value,
     lines |-> lines, logging |-> logging, fresh |-> fresh]

Init ==
    /\ current_ts = QuotePair_init.current_ts
    /\ ask = QuotePair_init.ask
    /\ bid = QuotePair_init.bid
    /\ ask_ts = None
    /\ bid_ts = None
    /\ archive = TimeCache_init.archive
    /\ last_spread = TimeCache_init.last_spread
    /\ tmp_cache = TimeCache_init.tmp_cache
    /\ stdout = << >>
    /\ pc = "reading"
    /\ clock = 0
    /\ fed = << >>
    /\ orphan = None
    /\ last = [op |-> "init", ts |-> NoArg, side |-> "", x |-> NoArg,
               exc |-> "none", value |-> None, lines |-> << >>, logging |-> << >>,
               fresh |-> FALSE]
    /\ cc_dict = CountCache_init.dict
    /\ cc_lock = CountCache_init.lock
    /\ cc_pc = [t \in Threads |-> "idle"]
    /\ cc_key = [t \in Threads |-> None]
    /\ cc_ret = [t \in Threads |-> None]
    /\ cc_calls = [t \in Threads |-> 0]
    /\ cc_returned = [k \in Keys |-> << >>]
    /\ wm_master = "unloaded"
    /\ wm_q_in = << >>
    /\ wm_q_dict = [p \in Workers |-> << >>]
    /\ wm_want = [p \in Workers |-> None]
    /\ st_read = << >>
    /\ st_chunk = stream_init.chunk
    /\ st_yielded = stream_init.yielded
    /\ st_pc = stream_init.pc

Sides == {":a", ":b", ":x"}
Times == 0..MaxTs
NextTimes == {t \in Times : clock <= t /\ t <= clock + MaxGap}
CacheTimes == 0..MaxCacheTs
NextCacheTimes == {t \in CacheTimes : clock <= t /\ t <= clock + MaxGap}
\* 0.01 in price units
Cent == Pow10(PriceDigits - 2)
\* the prices a record holds: 0.00, 0.01, 0.02
Prices == {0, Cent, 2 * Cent}
\* the spreads TimeCache.add is given on its own: -0.01 and 0.020000004
Spreads == {-Cent, 2 * Cent + 4 * Pow10(PriceDigits - 9)}
TsArgs(S) == {PyFloat(t) : t \in S} \cup {PyStr(0), PyInt(0)}
PriceArgs(S) == {PyFloat(p) : p \in S} \cup {PyStr(0), PyInt(1)}

SetQP(q) ==
    /\ current_ts' = q.current_ts
    /\ ask' = q.ask
    /\ bid' = q.bid

\* lines 107-116, 120-121: a price is supplied by the add call that assigned it,
\* and an add call assigns its side whenever it changes the pair
SetSupplied(q, side, ts) ==
    /\ ask_ts' = IF q.ask = None THEN None
                 ELSE IF q # QP /\ side = ":a" THEN Some(ts.val)
                 ELSE ask_ts
    /\ bid_ts' = IF q.bid = None THEN None
                 ELSE IF q # QP /\ side = ":b" THEN Some(ts.val)
                 ELSE bid_ts

SetTC(c) ==
    /\ archive' = c.archive
    /\ last_spread' = c.last_spread
    /\ tmp_cache' = c.tmp_cache

\* QuotePair.add(ts, side, price), called on its own
QPAddCall(ts, side, price) ==
    LET r == QuotePair_add(QP, ts, side, price)
    IN  /\ SetQP(r.q)
        /\ SetSupplied(r.q, side, ts)
        /\ last' = Call("QuotePair.add", ts, side, price, r.exc, r.value, << >>, << >>, FALSE)
        /\ UNCHANGED <<archive, last_spread, tmp_cache, stdout, pc, clock, fed, orphan>>
        /\ UNCHANGED <<ccvars, wmvars, stvars>>

\* TimeCache.add(ts, spread), called on its own
TCAddCall(ts, spread) ==
    LET r == TimeCache_add(TC, ts, spread)
        ok == r.exc = "none"
    IN  /\ Len(fed) < MaxAdds
        /\ SetTC(r.c)
        /\ fed' = IF ok THEN Append(fed, Obs(ts.val, spread.val)) ELSE fed
        /\ clock' = IF ok THEN ts.val ELSE clock
        /\ last' = Call("TimeCache.add", ts, "", spread, r.exc, r.value, << >>, << >>, FALSE)
        /\ UNCHANGED <<current_ts, ask, bid, ask_ts, bid_ts, stdout, pc, orphan>>
        /\ UNCHANGED <<ccvars, wmvars, stvars>>

\* TimeCache.log(), called on its own
TCLogCall ==
    LET r == TimeCache_log(TC)
    IN  /\ SetTC(r.c)
        /\ stdout' = stdout \o r.lines
        /\ last' = Call("TimeCache.log", NoArg, "", NoArg, r.exc, None, r.lines, << >>, FALSE)
        /\ UNCHANGED <<current_ts, ask, bid, ask_ts, bid_ts, pc, clock, fed, orphan>>
        /\ UNCHANGED <<ccvars, wmvars, stvars>>

\* r is what the pass over the record (t, side, price) did
DriverPass(t, side, price, r) ==
    /\ SetQP(r.q)
    /\ SetSupplied(r.q, side, PyFloat(t))
    /\ SetTC(r.c)
    /\ stdout' = stdout \o r.lines
    /\ pc' = r.pc
    /\ clock' = t
    /\ fed' = IF r.added THEN Append(fed, Obs(t, Val(r.spread))) ELSE fed
    /\ orphan' = IF /\ orphan = None
                    /\ r.exc = "QuoteError"
                    /\ current_ts # None
                    /\ t # Val(current_ts)
                 THEN Some(t)
                 ELSE orphan
    /\ last' = Call("read", PyFloat(t), side, PyFloat(price), r.exc, r.spread,
                    r.lines, r.logging, last.op # "read" \/ t > clock)
    /\ UNCHANGED <<ccvars, wmvars, stvars>>

\* compute_twa reads the record (t, side, price) and handles it
DriverRead(t, side, price) ==
    /\ pc = "reading"
    /\ Len(fed) < MaxAdds
    /\ DriverPass(t, side, price, compute_twa_record(QP, TC, MicrosOf(t), side, price))

\* the stream ends
DriverEnd ==
    /\ pc = "reading"
    /\ pc' = "done"
    /\ last' = Call("eof", NoArg, "", NoArg, "none", None, << >>, compute_twa_end(TC),
                    FALSE)
    /\ UNCHANGED <<current_ts, ask, bid, ask_ts, bid_ts, archive, last_spread,
                   tmp_cache, stdout, clock, fed, orphan>>
    /\ UNCHANGED <<ccvars, wmvars, stvars>>

NextQuotePair ==
    \E ts \in TsArgs(Times), side \in Sides, price \in PriceArgs(Prices) :
        QPAddCall(ts, side, price)

NextTimeCache ==
    \/ \E ts \in TsArgs(NextCacheTimes), spread \in PriceArgs(Spreads) : TCAddCall(ts, spread)
    \/ TCLogCall

Next ==
    \/ \E t \in NextTimes, side \in Sides, price \in Prices : DriverRead(t, side, price)
    \/ DriverEnd

\* the program: compute_twa over a stream with non-decreasing timestamps
Spec == Init /\ [][Next]_vars

\* QuotePair under any sequence of add calls
SpecQuotePair == Init /\ [][NextQuotePair]_vars

\* TimeCache under any sequence of add and log calls with non-decreasing timestamps
SpecTimeCache == Init /\ [][NextTimeCache]_vars

\* one CountCache under threads that call cache[key] and cache.clear()
SpecCountCache == Init /\ [][NextCountCache]_vars

\* stream over every input of at most MaxLen characters
SpecStream == Init /\ [][NextStream]_vars

\* the write master and its workers; every process that can take a step takes it
SpecWriteMaster == Init /\ [][NextWriteMaster]_vars /\ WF_vars(NextWriteMaster)

-----------------------------------------------------------------------------
(* Properties of QuotePair, under SpecQuotePair *)

IsQuoteAdd(l) == l.op = "QuotePair.add"
ValidArgs(l) == isinstance_float(l.ts) /\ l.side \in {":a", ":b"} /\ isinstance_float(l.x)
OneSideSet == (ask = None) # (bid = None)
BothSidesSet == ask # None /\ bid # None
SideSet(side) == IF side = ":a" THEN ask # None ELSE bid # None

\* the ask and the bid two calls supplied, one side each
AskOf(l1, l2) == IF l1.side = ":a" THEN l1.x.val ELSE l2.x.val
BidOf(l1, l2) == IF l1.side = ":b" THEN l1.x.val ELSE l2.x.val

\* C3: two consecutive adds at one timestamp t, one per side in either order and
\* with any float prices (0.0 included), return no spread on the first call and
\* exactly ask - bid on the second; once both sides are set, every further add at
\* t fails with QuoteError.
C3_Original ==
    [][ /\ ( /\ IsQuoteAdd(last) /\ last.exc = "none" /\ OneSideSet
             /\ IsQuoteAdd(last') /\ ValidArgs(last')
             /\ last'.ts = last.ts
             /\ last'.side # last.side )
            => /\ last.value = None
               /\ last'.exc = "none"
               /\ last'.value = Some(AskOf(last, last') - BidOf(last, last'))
        /\ ( /\ BothSidesSet
             /\ IsQuoteAdd(last') /\ ValidArgs(last')
             /\ last'.ts.val = Val(current_ts) )
            => last'.exc = "QuoteError"
      ]_vars

\* C4: an add whose ts differs from current_ts fails with QuoteError whenever the
\* instant before has exactly one side set, and succeeds, returning no spread,
\* whenever the pair of the instant before was complete.
C4_NewTimestamp ==
    [][ ( /\ IsQuoteAdd(last') /\ ValidArgs(last')
          /\ current_ts # None
          /\ last'.ts.val # Val(current_ts) )
        => /\ OneSideSet => last'.exc = "QuoteError"
           /\ BothSidesSet => (last'.exc = "none" /\ last'.value = None)
      ]_vars

\* an add at a new timestamp was refused while one side was set
C4_Witness ==
    /\ IsQuoteAdd(last) /\ ValidArgs(last) /\ last.exc = "QuoteError"
    /\ current_ts # None /\ last.ts.val # Val(current_ts)
    /\ OneSideSet

\* C5: an add at current_ts for a side already set for this instant fails with
\* QuoteError, whatever price is stored (0.0 included) and whether or not the
\* other side is set.
C5_DuplicateSide ==
    [][ ( /\ IsQuoteAdd(last') /\ ValidArgs(last')
          /\ current_ts # None
          /\ last'.ts.val = Val(current_ts)
          /\ SideSet(last'.side) )
        => last'.exc = "QuoteError"
      ]_vars

\* a second bid at the instant was refused while the stored bid is 0.0 and no ask is set
C5_Witness ==
    /\ IsQuoteAdd(last) /\ ValidArgs(last) /\ last.exc = "QuoteError"
    /\ last.side = ":b" /\ bid = Some(0) /\ ask = None
    /\ current_ts = Some(last.ts.val)

\* C7: add fails with InputError when ts is not a float, when price is not a
\* float, or when side is neither ':a' nor ':b', and the failed call leaves
\* current_ts, bid and ask unchanged.
C7_InvalidInput ==
    [][ ( /\ IsQuoteAdd(last')
          /\ \/ ~isinstance_float(last'.ts)
             \/ ~isinstance_float(last'.x)
             \/ last'.side \notin {":a", ":b"} )
        => /\ last'.exc = "InputError"
           /\ UNCHANGED <<current_ts, ask, bid>>
      ]_vars

\* an add with an unknown side was refused on a QuotePair that holds a side
C7_Witness ==
    /\ IsQuoteAdd(last) /\ last.exc = "InputError"
    /\ isinstance_float(last.ts) /\ isinstance_float(last.x)
    /\ last.side = ":x"
    /\ OneSideSet

\* the spread the call l completes with the side that was pending before it
CompletedSpread(l) ==
    IF l.side = ":a" THEN l.x.val - Val(bid) ELSE Val(ask) - l.x.val

\* C22: an add that fails with QuoteError leaves current_ts, bid and ask as they
\* were, and the pending pair is still completed afterwards: adding the missing
\* side at the pending timestamp returns the spread.
C22_Original ==
    [][ /\ (IsQuoteAdd(last') /\ last'.exc = "QuoteError")
            => UNCHANGED <<current_ts, ask, bid>>
        /\ ( /\ IsQuoteAdd(last) /\ last.exc = "QuoteError" /\ OneSideSet
             /\ IsQuoteAdd(last') /\ ValidArgs(last')
             /\ current_ts = Some(last'.ts.val)
             /\ ~SideSet(last'.side) )
            => /\ last'.exc = "none"
               /\ last'.value = Some(CompletedSpread(last'))
      ]_vars

\* C23: whenever add returns a spread, the ask and the bid it subtracts were both
\* supplied by add calls at the timestamp of the call itself: no spread is
\* computed from prices of two different timestamps.
C23_SpreadFromOneTimestamp ==
    (IsQuoteAdd(last) /\ last.exc = "none" /\ last.value # None)
        => /\ ask_ts = Some(last.ts.val)
           /\ bid_ts = Some(last.ts.val)
           /\ last.value = Some(Val(ask) - Val(bid))

\* an add call after the first instant returned a spread
C23_Witness ==
    /\ IsQuoteAdd(last) /\ last.exc = "none" /\ last.value # None
    /\ last.ts.val > 1
    /\ ask_ts = bid_ts

\* the pair (a, b) holds exactly the side l supplied, at l's price
OnlySideSupplied(l, a, b) ==
    IF l.side = ":a" THEN a = Some(l.x.val) /\ b = None
    ELSE b = Some(l.x.val) /\ a = None

\* C31: after every successful add, current_ts is the call's ts; when the ts
\* differs from the current_ts before and the pair before was complete, the call
\* returns no spread and leaves exactly its own side set, to its price.
C31_TracksTimestamp ==
    [][ (IsQuoteAdd(last') /\ last'.exc = "none")
        => /\ current_ts' = Some(last'.ts.val)
           /\ ( /\ current_ts # None
                /\ last'.ts.val # Val(current_ts)
                /\ BothSidesSet )
              => /\ last'.value = None
                 /\ OnlySideSupplied(last', ask', bid')
      ]_vars

\* a successful add at a later timestamp returned no spread and left its own
\* side alone in the pair
C31_Witness ==
    /\ IsQuoteAdd(last) /\ last.exc = "none" /\ last.value = None
    /\ last.ts.val > 0
    /\ current_ts = Some(last.ts.val)
    /\ OnlySideSupplied(last, ask, bid)




-----------------------------------------------------------------------------
(* Properties of TimeCache, under SpecTimeCache *)

IsCacheAdd(l) ==
    l.op = "TimeCache.add" /\ isinstance_float(l.ts) /\ isinstance_float(l.x)

\* C8: the first TimeCache.add(ts, spread) ever made sets archive to exactly
\* [(floor(ts), none)] and tmp_cache to exactly [(ts, spread)], leaves last_spread
\* unset and reports not-ready.
C8_ColdStart ==
    (IsCacheAdd(last) /\ Len(fed) <= 1)
    => /\ last.exc = "none"
       /\ archive = << Entry(floor(last.ts.val), None) >>
       /\ tmp_cache = << Obs(last.ts.val, last.x.val) >>
       /\ last_spread = None
       /\ last.value = None

\* the first add was made at a timestamp that is no whole second
C8_Witness ==
    /\ IsCacheAdd(last) /\ Len(fed) = 1
    /\ last.ts.val % TicksPerSec # 0
    /\ last.x.val # 0

\* the average of a cold window tmp = [(t1,s1),...,(tn,sn)] that follows the whole
\* second T: (sum over i<n of s_i*(t_{i+1}-t_i) + s_n*(T+1-t_n)) / (T+1-t1)
ColdAverage(tmp, T) ==
    LET n == Len(tmp)
        End == T + TicksPerSec
        Upto[i \in 0..n] ==
            IF i = 0 THEN 0
            ELSE Upto[i - 1]
                 + tmp[i].spread * ((IF i < n THEN tmp[i + 1].ts ELSE End) - tmp[i].ts)
    IN  round(Upto[n], End - tmp[1].ts)

\* the average of a warm window: as the cold one, with last_spread in effect
\* from T to t1, over the whole second
WarmAverage(tmp, T, ls) ==
    LET n == Len(tmp)
        End == T + TicksPerSec
        Upto[i \in 0..n] ==
            IF i = 0 THEN ls * (tmp[1].ts - T)
            ELSE Upto[i - 1]
                 + tmp[i].spread * ((IF i < n THEN tmp[i + 1].ts ELSE End) - tmp[i].ts)
    IN  round(Upto[n], TicksPerSec)

WindowAverage ==
    IF last_spread = None
    THEN ColdAverage(tmp_cache, Last(archive).ts)
    ELSE WarmAverage(tmp_cache, Last(archive).ts, Val(last_spread))

\* C9: after the cold start, add(ts, spread) reports ready if and only if
\* ts - archive.last.whole_second > 1.0; exactly then it appends exactly one
\* entry (floor(ts), weighted average) to archive, however many whole seconds
\* elapsed, sets last_spread to the spread of the last entry of the outgoing
\* tmp_cache and resets tmp_cache to the single entry (ts, spread).
C9_ReadyIffSecondElapsed ==
    [][ (IsCacheAdd(last') /\ archive # << >>)
        => LET ts == last'.ts.val
               ready == ts - Last(archive).ts > TicksPerSec
           IN  /\ last'.exc = "none"
               /\ (last'.value = Some(1)) <=> ready
               /\ ~ready => last'.value = Some(0) /\ archive' = archive
               /\ ready =>
                    /\ archive' = Append(archive, Entry(floor(ts), Some(WindowAverage)))
                    /\ last_spread' = Some(Last(tmp_cache).spread)
                    /\ tmp_cache' = << Obs(ts, last'.x.val) >>
      ]_vars

\* an add closed a second two or more whole seconds after the entry before it
C9_Witness ==
    /\ IsCacheAdd(last) /\ last.value = Some(1)
    /\ Len(archive) >= 2
    /\ Last(archive).ts - archive[Len(archive) - 1].ts >= 2 * TicksPerSec
    /\ tmp_cache = << Obs(last.ts.val, last.x.val) >>

\* C10: a close while last_spread is unset, with tmp_cache = [(t1,s1),...,(tn,sn)]
\* and the archive's last second T, computes
\* (sum over i<n of s_i*(t_{i+1}-t_i) + s_n*(T+1-t_n)) / (T+1-t1): the time from T
\* to t1 is left out of the numerator and of the denominator.
C10_ColdWindowAverage ==
    [][ ( /\ IsCacheAdd(last') /\ last'.value = Some(1)
          /\ last_spread = None )
        => Last(archive').avg
             = Some(ColdAverage(tmp_cache, Last(archive).ts))
      ]_vars

\* the first close came after two observations with different spreads, the first
\* of them later than the whole second before it
C10_Witness ==
    /\ IsCacheAdd(last) /\ last.value = Some(1)
    /\ Len(fed) = 3 /\ Len(archive) = 2 /\ archive[1].avg = None
    /\ fed[1].ts > archive[1].ts
    /\ fed[2].ts > fed[1].ts
    /\ fed[1].spread # fed[2].spread

\* C11: a close while last_spread is set, with the archive's last second A and
\* tmp_cache = [(t1,s1),...,(tn,sn)], computes the weighted mean of last_spread
\* with weight t1-A, each s_i (i<n) with weight t_{i+1}-t_i and s_n with weight
\* A+1-t_n: every spread weighs the time from its record to the next record or
\* to the next whole second.
C11_WarmWindowAverage ==
    [][ ( /\ IsCacheAdd(last') /\ last'.value = Some(1)
          /\ last_spread # None )
        => Last(archive').avg
             = Some(WarmAverage(tmp_cache, Last(archive).ts, Val(last_spread)))
      ]_vars

\* the second close came after a window of two observations, the first of them
\* later than the whole second before it and with a spread other than the one
\* carried over
C11_Witness ==
    /\ IsCacheAdd(last) /\ last.value = Some(1)
    /\ Len(fed) = 4 /\ last_spread = Some(fed[3].spread)
    /\ fed[2].ts - floor(fed[1].ts) > TicksPerSec
    /\ fed[3].ts - floor(fed[2].ts) <= TicksPerSec
    /\ fed[2].ts > floor(fed[2].ts)
    /\ fed[3].ts > fed[2].ts
    /\ fed[1].spread # fed[2].spread

\* the time weights of the window the next close computes
WindowWeights == SumWeights(get_spreads_and_time_weights(TC))

\* C12 as stated: every time add closes a second, the first, cold-start close
\* included, the time weights of the closed window sum to exactly one second.
C12_Original ==
    [][ (IsCacheAdd(last') /\ last'.value = Some(1))
        => WindowWeights = TicksPerSec
      ]_vars

\* C12: every time add closes a second while last_spread is set, the time weights
\* of the closed window sum to exactly one second; on the first, cold-start close
\* they sum to T+1-t1, the part of the second from the first observation on.
C12_WeightsSum ==
    [][ (IsCacheAdd(last') /\ last'.value = Some(1))
        => WindowWeights = IF last_spread # None
                           THEN TicksPerSec
                           ELSE Last(archive).ts + TicksPerSec - tmp_cache[1].ts
      ]_vars

\* the cold-start close came after a first observation that is on no whole second
C12_Witness ==
    /\ IsCacheAdd(last) /\ last.value = Some(1)
    /\ Len(archive) = 2 /\ archive[1].avg = None
    /\ last_spread # None
    /\ fed[1].ts % TicksPerSec # 0

IsLog(l) == l.op = "TimeCache.log"

\* the value C13 gives the line of the whole second sec: the average of the entry
\* of that second, or else of the latest entry before it
C13_Value(arch, sec) ==
    LET own == {i \in 2..Len(arch) : arch[i].ts = sec}
        before == {i \in 1..Len(arch) : arch[i].ts < sec}
    IN  IF own # {} THEN arch[CHOOSE i \in own : TRUE].avg
        ELSE arch[CHOOSE i \in before : \A j \in before : j <= i].avg

\* the lines C13 gives log() on arch: one for every whole second after the first
\* entry's up to the last entry's
C13_Lines(arch) ==
    [k \in 1..((Last(arch).ts - arch[1].ts) \div TicksPerSec) |->
        [ts |-> sec_to_microsec(arch[1].ts + k * TicksPerSec),
         value |-> C13_Value(arch, arch[1].ts + k * TicksPerSec)]]

\* C13: log() on an archive [e0, ..., en], n >= 1, emits for each entry e_i, i >= 1,
\* one line for every whole second after the last emitted second and before e_i's,
\* valued with the average of e_{i-1}, then one line for e_i's own second with
\* e_i's own average; a second without data repeats the average before it and
\* never takes another entry's.
C13_Original ==
    [][ (IsLog(last') /\ Len(archive) >= 2)
        => /\ last'.exc = "none"
           /\ [k \in 1..Len(last'.lines) |->
                 [ts |-> last'.lines[k].ts, value |-> Some(last'.lines[k].value)]]
              = C13_Lines(archive)
      ]_vars

\* C14: a second log() with no add in between emits no line, completes without
\* raising and leaves the archive equal to its single anchor entry.
C14_Original ==
    [][ (IsLog(last) /\ last.exc = "none" /\ IsLog(last'))
        => /\ last'.exc = "none"
           /\ last'.lines = << >>
           /\ Len(archive') = 1
           /\ archive' = archive
      ]_vars

\* C18: TimeCache.add fails with InputError when ts or spread is not a float, an
\* integer-typed value included, and the failed call leaves archive, tmp_cache
\* and last_spread unchanged, also on the very first call, which seeds nothing.
C18_InvalidInput ==
    [][ ( /\ last'.op = "TimeCache.add"
          /\ (last'.ts.type # "float" \/ last'.x.type # "float") )
        => /\ last'.exc = "InputError"
           /\ UNCHANGED <<archive, tmp_cache, last_spread>>
      ]_vars

\* the very first add was refused for an integer-typed spread and seeded nothing
C18_Witness ==
    /\ last.op = "TimeCache.add" /\ last.exc = "InputError"
    /\ last.ts.type = "float" /\ last.x.type = "int"
    /\ archive = << >> /\ tmp_cache = << >> /\ fed = << >>

\* C24 as stated: the first archive entry's average is none in every state in
\* which the archive is non-empty.
C24_Original ==
    archive # << >> => archive[1].avg = None

\* C24: the first archive entry's average is none exactly as long as no log()
\* has completed; after a log() the first entry is the second log retained,
\* with the average computed for it.
C24_FirstAverage ==
    archive # << >> => ((archive[1].avg = None) <=> (stdout = << >>))

\* a second was closed after a log(): the archive starts with the retained
\* second and its average
C24_Witness ==
    /\ Len(archive) >= 2
    /\ stdout # << >>
    /\ archive[1].avg # None

\* C25: the whole seconds of the archive entries are strictly increasing, and
\* each is a whole number of seconds.
C25_SecondsIncrease ==
    /\ \A i \in 1..Len(archive) : archive[i].ts % TicksPerSec = 0
    /\ \A i \in 1..Len(archive), j \in 1..Len(archive) :
          i < j => archive[i].ts < archive[j].ts

\* three seconds in the archive, the last one after a gap
C25_Witness ==
    /\ Len(archive) >= 3
    /\ archive[3].ts > archive[2].ts + TicksPerSec
    /\ \E i \in 1..Len(fed) : fed[i].ts % TicksPerSec # 0

\* C26 as stated: every timestamp t held in tmp_cache satisfies
\* last_archived_second < t <= last_archived_second + 1.
C26_Original ==
    \A i \in 1..Len(tmp_cache) :
        /\ Last(archive).ts < tmp_cache[i].ts
        /\ tmp_cache[i].ts <= Last(archive).ts + TicksPerSec

\* C26: every timestamp t held in tmp_cache satisfies
\* last_archived_second <= t <= last_archived_second + 1; t is the archived
\* second itself when the observation lies exactly on a whole second.
C26_WithinSecond ==
    \A i \in 1..Len(tmp_cache) :
        /\ Last(archive).ts <= tmp_cache[i].ts
        /\ tmp_cache[i].ts <= Last(archive).ts + TicksPerSec

\* after a close, tmp_cache holds an observation on the archived second and one
\* exactly a second later
C26_Witness ==
    /\ Len(archive) >= 2
    /\ Len(tmp_cache) >= 2
    /\ tmp_cache[1].ts = Last(archive).ts
    /\ Last(tmp_cache).ts = Last(archive).ts + TicksPerSec

\* C28: after the cold start, an add whose timestamp is at most 1.0 past the last
\* archived second (exactly 1.0 included) reports not-ready, leaves archive and
\* last_spread unchanged and appends (ts, spread) at the end of tmp_cache.
C28_NotReadyAppends ==
    [][ ( /\ IsCacheAdd(last') /\ last'.exc = "none"
          /\ archive # << >>
          /\ last'.ts.val - Last(archive).ts <= TicksPerSec )
        => /\ last'.value = Some(0)
           /\ UNCHANGED <<archive, last_spread>>
           /\ tmp_cache' = Append(tmp_cache, Obs(last'.ts.val, last'.x.val))
      ]_vars

\* an add exactly 1.0 past the last archived second, after a close, was appended
C28_Witness ==
    /\ IsCacheAdd(last) /\ last.value = Some(0)
    /\ last_spread # None
    /\ last.ts.val = Last(archive).ts + TicksPerSec
    /\ Len(tmp_cache) >= 2
    /\ Last(tmp_cache) = Obs(last.ts.val, last.x.val)

\* C29: log() leaves tmp_cache and last_spread unchanged, and the archive it
\* leaves is the last archive entry alone, its second and its average as they
\* were.
C29_LogChangesArchiveOnly ==
    [][ IsLog(last')
        => /\ UNCHANGED <<tmp_cache, last_spread>>
           /\ archive # << >> => archive' = << Last(archive) >>
           /\ archive = << >> => archive' = archive
      ]_vars

\* a log() that emitted lines cut a longer archive down to its last entry
C29_Witness ==
    /\ IsLog(last) /\ last.exc = "none"
    /\ Len(last.lines) >= 2
    /\ Len(archive) = 1
    /\ archive[1].avg = Some(Last(last.lines).value)
    /\ tmp_cache # << >>
    /\ last_spread # None

\* C33: for the observations added so far, log() called once after all the adds
\* writes the same lines, in the same order, as log() called after every add
\* that reported ready, also when the first close follows a gap of more than one
\* second after the cold start.
C33_Original ==
    log_once_after_adds(fed) = log_when_ready(fed)

\* C34: whenever an add closes a second, every time weight of the closed window
\* is >= 0 and the weights sum to more than 0, so the division of _weight_time
\* does not fail.
C34_WeightsPositive ==
    [][ ( /\ IsCacheAdd(last')
          /\ archive # << >>
          /\ last'.ts.val - Last(archive).ts > TicksPerSec )
        => /\ \A i \in 1..Len(get_spreads_and_time_weights(TC)) :
                 get_spreads_and_time_weights(TC)[i].weight >= 0
           /\ WindowWeights > 0
           /\ last'.exc = "none"
      ]_vars

\* the first close, over a window that held a single observation lying exactly
\* on a whole second
C34_Witness ==
    /\ IsCacheAdd(last) /\ last.value = Some(1)
    /\ Len(fed) = 2
    /\ fed[1].ts % TicksPerSec = 0 /\ fed[1].ts > 0
    /\ archive[2].avg = Some(round(fed[1].spread, 1))

\* the spreads that contribute to the average of the window the next close
\* computes: those of tmp_cache and, when set, last_spread
WindowSpreads ==
    {tmp_cache[i].spread : i \in 1..Len(tmp_cache)}
        \cup (IF last_spread # None THEN {Val(last_spread)} ELSE {})

\* a weighted average, in price units
InPriceUnits(avg) == Val(avg) * Pow10(PriceDigits - FLOAT_DIGITS)

\* C35 as stated: every weighted average appended to the archive lies between
\* the minimum and the maximum of the spreads that contributed to it.
C35_Original ==
    [][ (IsCacheAdd(last') /\ last'.value = Some(1))
        => /\ \E s \in WindowSpreads : s <= InPriceUnits(Last(archive').avg)
           /\ \E s \in WindowSpreads : InPriceUnits(Last(archive').avg) <= s
      ]_vars

\* C35: every weighted average appended to the archive lies between the minimum
\* and the maximum of the spreads that contributed to it, up to the rounding to
\* FLOAT_DIGITS decimal digits: it is at most half a unit of that precision
\* below the minimum or above the maximum.
C35_WithinRounding ==
    [][ (IsCacheAdd(last') /\ last'.value = Some(1))
        => /\ \E s \in WindowSpreads :
                 2 * s - Pow10(PriceDigits - FLOAT_DIGITS)
                     <= 2 * InPriceUnits(Last(archive').avg)
           /\ \E s \in WindowSpreads :
                 2 * InPriceUnits(Last(archive').avg)
                     <= 2 * s + Pow10(PriceDigits - FLOAT_DIGITS)
      ]_vars

\* the first close, over a window whose single spread has more decimal digits
\* than the average keeps: the average is below that spread
C35_Witness ==
    /\ IsCacheAdd(last) /\ last.value = Some(1)
    /\ Len(fed) = 2 /\ Len(archive) = 2
    /\ InPriceUnits(archive[2].avg) < fed[1].spread
    /\ InPriceUnits(archive[2].avg) > fed[1].spread - Pow10(PriceDigits - FLOAT_DIGITS)

\* C36: once TimeCache.add has accepted an observation, archive and tmp_cache
\* are non-empty in every state, whatever add and log() calls follow, and no
\* call fails by indexing an empty list.
C36_NeverEmpty ==
    fed # << >>
        => /\ archive # << >>
           /\ tmp_cache # << >>
           /\ last.exc # "IndexError"

\* a log() after a close cut the archive down and left both lists non-empty
C36_Witness ==
    /\ fed # << >>
    /\ IsLog(last) /\ last.exc = "none"
    /\ Len(archive) = 1 /\ Len(tmp_cache) = 1









-----------------------------------------------------------------------------
(* Properties of compute_twa, under Spec *)

\* the observation in effect at tick k: the latest one made at or before k
InEffect(k) ==
    LET at == {i \in 1..Len(fed) : fed[i].ts <= k}
    IN  IF at = {} THEN None
        ELSE Some(fed[CHOOSE i \in at : \A j \in at : j <= i].spread)

\* the time-weighted average of the spread in effect during the second that ends
\* at the whole second S, over the part of it where a spread is in effect
TrueAverage(S) ==
    LET from == S - TicksPerSec
        Upto[k \in (from - 1)..(S - 1)] ==
            IF k = from - 1 THEN [num |-> 0, den |-> 0]
            ELSE IF InEffect(k) = None THEN Upto[k - 1]
            ELSE [num |-> Upto[k - 1].num + Val(InEffect(k)),
                  den |-> Upto[k - 1].den + 1]
    IN  IF Upto[S - 1].den = 0 THEN None
        ELSE Some(round(Upto[S - 1].num, Upto[S - 1].den))

\* C1: every line compute_twa emits for a whole second S carries the
\* time-weighted average of the spread in effect during the second ending at S,
\* on any stream with non-decreasing timestamps, gaps of more than a second
\* between observations included.
C1_Original ==
    \A i \in 1..Len(stdout) :
        Some(stdout[i].value) = TrueAverage(microsec_to_sec(stdout[i].ts))

\* C2: compute_twa emits exactly one line per elapsed whole second: one for every
\* whole second after the first observation's second up to the last second a
\* later record closed, none skipped and none twice, also when the first two
\* observations are more than one second apart.
C2_Original ==
    fed # << >> =>
        /\ \A i \in 1..Len(stdout) :
              stdout[i].ts = sec_to_microsec(floor(fed[1].ts) + i * TicksPerSec)
        /\ Len(stdout) * TicksPerSec = Last(archive).ts - floor(fed[1].ts)

\* C6: after a record was dropped because a new timestamp began while the
\* instant before had one side set, a bid and an ask that arrive together at a
\* later timestamp produce a spread again, which is fed to TimeCache.
C6_Original ==
    [][ ( /\ orphan # None
          /\ last.op = "read" /\ last.fresh /\ last.ts.val > Val(orphan)
          /\ last'.op = "read" /\ last'.ts = last.ts
          /\ {last.side, last'.side} = {":a", ":b"}
          /\ last.x.val # 0 /\ last'.x.val # 0 )
        => /\ last'.exc = "none"
           /\ last'.value = Some(AskOf(last, last') - BidOf(last, last'))
           /\ fed' = Append(fed, Obs(last'.ts.val, Val(last'.value)))
      ]_vars

IsRead(l) == l.op = "read"

\* C15: over a whole run of compute_twa, whatever the number of log() calls, the
\* timestamps of the emitted lines are strictly increasing, and from the first
\* line on each emitted second is the one before plus 1.
C15_StrictlyIncreasing ==
    /\ \A i, j \in 1..Len(stdout) : i < j => stdout[i].ts < stdout[j].ts
    /\ \A i \in 2..Len(stdout) : stdout[i].ts = stdout[i - 1].ts + MicrosPerSec

\* a later log() filled a second without data before the line of its own second
C15_Witness ==
    /\ IsRead(last) /\ Len(last.lines) >= 2
    /\ Len(stdout) > Len(last.lines)

\* C16: when QuotePair.add raises QuoteError inside compute_twa, only that record
\* is discarded: TimeCache.add and log() are not called for it, archive,
\* tmp_cache and last_spread are unchanged, nothing is emitted, and compute_twa
\* goes on to read the next record.
C16_QuoteErrorDiscards ==
    [][ (IsRead(last') /\ last'.exc = "QuoteError")
        => /\ UNCHANGED <<archive, tmp_cache, last_spread, stdout, fed>>
           /\ last'.lines = << >>
           /\ last'.logging = << Warning >>
           /\ pc' = "reading"
      ]_vars

\* a record was discarded after lines were emitted, with observations in tmp_cache
C16_Witness ==
    /\ IsRead(last) /\ last.exc = "QuoteError"
    /\ stdout # << >> /\ tmp_cache # << >> /\ last_spread # None
    /\ pc = "reading"

\* C17: at the end of the stream compute_twa emits no line for the observations
\* tmp_cache still holds; it reports their count and the first and the last of
\* their timestamps, and it does so whenever a spread was ever fed to TimeCache.
C17_EndReportsOnly ==
    [][ last'.op = "eof"
        => /\ stdout' = stdout
           /\ last'.lines = << >>
           /\ fed # << >> => tmp_cache # << >>
           /\ last'.logging =
                IF fed # << >>
                THEN << [level |-> "info", n |-> Len(tmp_cache),
                         first |-> tmp_cache[1].ts, last |-> Last(tmp_cache).ts] >>
                ELSE << >>
      ]_vars

\* the stream ended after a line was emitted, the second that was open holding one
\* observation
C17_Witness ==
    /\ last.op = "eof" /\ pc = "done"
    /\ stdout # << >>
    /\ Len(tmp_cache) = 1
    /\ last.logging = << [level |-> "info", n |-> 1,
                          first |-> tmp_cache[1].ts, last |-> tmp_cache[1].ts] >>

\* the archive TimeCache.add left when the read l fed it the spread, before any
\* log()
ArchiveAdded(l) == TimeCache_add(TC, l.ts, PyFloat(Val(l.value))).c.archive

\* C27: in a driver run the archive never holds more than two entries, neither
\* between records nor between add and log(); after every log() it holds exactly
\* the one entry that was last before the call; and tmp_cache holds the
\* observations received since the last close, the closing one first.
C27_BoundedMemory ==
    [][ IsRead(last') =>
          /\ Len(archive') <= 2
          /\ fed' # fed => Len(ArchiveAdded(last')) <= 2
          /\ last'.lines # << >> => archive' = << Last(ArchiveAdded(last')) >>
          /\ tmp_cache' = IF last'.lines # << >> THEN << Last(fed') >>
                          ELSE IF fed' # fed THEN Append(tmp_cache, Last(fed'))
                          ELSE tmp_cache
      ]_vars

\* a second log() has left one entry, and observations gathered since
C27_Witness ==
    /\ IsRead(last)
    /\ Len(stdout) >= 2
    /\ Len(archive) = 1
    /\ Len(tmp_cache) >= 2
    /\ Len(fed) > Len(tmp_cache)

\* C30: for each record the driver reads, TimeCache.add is called once, with the
\* record's timestamp, exactly when QuotePair.add returned a spread (0.0
\* included), and log() writes its lines within the same pass exactly when that
\* add reported ready, that is when the timestamp is more than 1.0 past the
\* last archived second.
C30_FeedsEverySpread ==
    [][ IsRead(last') =>
          /\ fed' = IF last'.value # None
                    THEN Append(fed, Obs(last'.ts.val, Val(last'.value)))
                    ELSE fed
          /\ stdout' = stdout \o last'.lines
          /\ (last'.lines # << >>)
                <=> ( /\ last'.value # None
                      /\ archive # << >>
                      /\ last'.ts.val - Last(archive).ts > TicksPerSec )
      ]_vars

\* a record completed a pair with spread 0.0, the spread was fed with the
\* record's timestamp, and the second it closed was logged in the same pass
C30_Witness ==
    /\ IsRead(last)
    /\ last.value = Some(0)
    /\ last.lines # << >>
    /\ Last(fed) = Obs(last.ts.val, 0)
    /\ tmp_cache = << Last(fed) >>

\* C32: an InputError of QuotePair.add is not caught by the driver: the run
\* aborts at that record, changing nothing and writing nothing, and after the
\* abort no record is read and no line is written; a QuoteError leaves the
\* driver reading.
C32_InputErrorAborts ==
    [][ /\ (IsRead(last') /\ last'.exc = "InputError")
            => /\ pc' = "aborted"
               /\ last'.lines = << >> /\ last'.logging = << >>
               /\ UNCHANGED <<current_ts, ask, bid, archive, tmp_cache,
                              last_spread, stdout, fed>>
        /\ (IsRead(last') /\ last'.exc = "QuoteError") => pc' = "reading"
        /\ pc = "aborted" => UNCHANGED <<pc, stdout, fed, last>>
      ]_vars

\* the run was aborted by a record with a bad side, after lines were written and
\* with observations still held
C32_Witness ==
    /\ pc = "aborted"
    /\ IsRead(last) /\ last.exc = "InputError" /\ last.side = ":x"
    /\ stdout # << >>
    /\ tmp_cache # << >>

-----------------------------------------------------------------------------
(* Properties of CountCache, under SpecCountCache *)

\* the thread is inside cache[key]: it holds the lock and has not handed back yet
InGetItem(t, key) ==
    /\ cc_key[t] = Some(key)
    /\ cc_pc[t] \in {"has_key", "read", "set", "reread", "set_one", "release"}

\* C19: CountCache is thread-safe: however n calls of cache[key] from several
\* threads interleave, with no clear in between, no increment is lost: the n
\* calls return the n distinct values 1..n, and lookup then reads the count n.
C19_ThreadSafe ==
    \A key \in Keys :
        LET r == cc_returned[key]
            n == Len(r)
        IN  /\ {r[i] : i \in 1..n} = 1..n
            /\ (\A t \in Threads : ~InGetItem(t, key))
                => CountCache_lookup(cc_dict, key) = IF n = 0 THEN None ELSE Some(n)

\* every thread is done and one key was counted by more calls than one thread makes
C19_Witness ==
    /\ \A t \in Threads : cc_pc[t] = "idle" /\ cc_calls[t] = MaxCalls
    /\ \E key \in Keys :
          /\ Len(cc_returned[key]) > MaxCalls
          /\ CountCache_lookup(cc_dict, key) = Some(Len(cc_returned[key]))

-----------------------------------------------------------------------------
(* Properties of the write master, under SpecWriteMaster *)

\* the worker received the permission signal for the id and has not released it
HoldsPermission(p, id) == wm_want[p] = Some(id) /\ wm_q_dict[p] # << >>

\* C20: for every file id at most one worker at a time has received the
\* permission signal without having sent the matching release, and a worker that
\* asks for an id no other worker asks for is granted it without waiting.
C20_Original ==
    /\ [](\A id \in Ids : Cardinality({p \in Workers : HoldsPermission(p, id)}) <= 1)
    /\ \A p \in Workers, id \in Ids :
          (wm_want[p] = Some(id) /\ \A q \in Workers \ {p} : wm_want[q] # Some(id))
          ~> HoldsPermission(p, id)

\* the worker's request for the id is the earliest one on the input queue
EarliestRequest(p, id) ==
    \E i \in 1..Len(wm_q_in) :
        /\ wm_q_in[i] = Request(id, p)
        /\ \A j \in 1..(i - 1) : wm_q_in[j].id # id

\* C21: the workers asking for one file id receive the permission signal in the
\* order their requests reached the master: no worker holds the id while an
\* earlier request for it is still waiting, and the earliest request for an id
\* is eventually granted (at once when the id is not in the access table, at
\* the holder's release otherwise).
C21_Original ==
    /\ [](\A p \in Workers, q \in Workers, id \in Ids :
            (EarliestRequest(p, id) /\ HoldsPermission(q, id)) => q = p)
    /\ \A p \in Workers, id \in Ids :
          EarliestRequest(p, id) ~> HoldsPermission(p, id)

-----------------------------------------------------------------------------
(* Properties of stream, under SpecStream *)

\* the items joined with newlines
RECURSIVE JoinLines(_)
JoinLines(items) ==
    IF items = << >> THEN << >>
    ELSE IF Len(items) = 1 THEN items[1]
    ELSE items[1] \o << "\n" >> \o JoinLines(Tail(items))

\* the number of newline characters in a string
Newlines(str) == Cardinality({i \in 1..Len(str) : str[i] = "\n"})

\* the string ends with a newline
Terminated(str) == str # << >> /\ str[Len(str)] = "\n"

\* C38: stream yields one item for every newline character, without the newline
\* and in the order of the input (an empty line gives an empty item), then the
\* last, unterminated chunk if it is not empty, and ends; the items joined with
\* newlines are the input less one trailing newline.
C38_YieldsLines ==
    /\ Len(st_yielded) = Newlines(st_read)
                         + (IF st_pc = "done" /\ st_read # << >> /\ ~Terminated(st_read)
                            THEN 1 ELSE 0)
    /\ \A i \in 1..Len(st_yielded) : \A j \in 1..Len(st_yielded[i]) :
          st_yielded[i][j] # "\n"
    /\ st_pc = "done"
          => JoinLines(st_yielded) = IF Terminated(st_read)
                                     THEN SubSeq(st_read, 1, Len(st_read) - 1)
                                     ELSE st_read

\* the generator ended on an input with an empty line and an unterminated last
\* line
C38_Witness ==
    /\ st_pc = "done"
    /\ Len(st_yielded) = 3
    /\ st_yielded[2] = << >>
    /\ st_yielded[3] # << >>
    /\ ~Terminated(st_read)



====
